---- MODULE Spec2Model ----
(***************************************************************************)
(* financial-bots: four rule-based pipelines (compliance auditor, lead    *)
(* scoring, revenue forecasting, scam intelligence).  The components of   *)
(* the four programs share no state, so a behaviour follows one client    *)
(* session: `session` is chosen in Init and names the component whose     *)
(* operations are called; the other components' variables keep their      *)
(* initial values.                                                        *)
(***************************************************************************)
EXTENDS Integers, Sequences, FiniteSets, TLC

VARIABLES
    session,        \* which component this behaviour exercises
    auditConfig,    \* compliance Config held by the AuditScorer
    lastAudit,      \* last AuditScorer.score call: checks and AuditResult
    prevAudit,      \* the score call before it, under the same Config
    evalConfig,     \* compliance Config held by the ComplianceEvaluator
    lastEvaluate,   \* last ComplianceEvaluator.evaluate call
    leadConfig,     \* lead Config held by the LeadClassifier
    lastLead,       \* last LeadClassifier.classify call
    prevLead,       \* the classify call before it, under the same Config
    scamConfig,     \* scam Config held by the RiskEngine
    lastRisk,       \* last RiskEngine.score call
    prevRisk,       \* the score call before it, under the same Config
    patterns,       \* PatternMemory._patterns of the client's memory object
    added,          \* history: the contents ever passed to that object's add
    lastSimilar,    \* last PatternMemory.similar call (`stored`: entries then held)
    runTexts,       \* history: the message texts of the scam run calls
    runMemory,      \* _patterns of the PatternMemory the last scam run used
    lastRun,        \* last runner call: what it did and returned
    now,            \* the clock, in whole Unix seconds
    exportLog,      \* history: file names written by export, in call order
    files,          \* the export directory: file name -> payload
    batch,          \* the client's list of transactions (or transaction dicts)
    lastTrend,      \* last TrendEngine.analyze call
    lastForecast    \* last ForecastEngine.forecast call

complianceVars == <<auditConfig, lastAudit, prevAudit, evalConfig, lastEvaluate>>
leadVars == <<leadConfig, lastLead, prevLead>>
riskVars == <<scamConfig, lastRisk, prevRisk>>
memoryVars == <<patterns, added, lastSimilar>>
runVars == <<runTexts, runMemory, lastRun, now, exportLog, files>>
forecastVars == <<batch, lastTrend, lastForecast>>

vars == <<session, complianceVars, leadVars, riskVars, memoryVars, runVars,
          forecastVars>>

----------------------------------------------------------------------------
(* Bounds *)

MaxChecks == 4
MaxTime == 2
MaxRuns == 2
MaxPatterns == 3
MaxTx == 4
MaxBatch == 2

----------------------------------------------------------------------------
(* Compliance auditor *)

DefaultRiskHigh == 70
DefaultRiskMedium == 40

\* Config(): a plain dataclass; __post_init__ only fills enabled_frameworks.
DefaultFrameworks == <<"SOC2", "PCI-DSS", "GENERAL">>

ComplianceConfig(high, medium) ==
    [risk_high |-> high, risk_medium |-> medium,
     enabled_frameworks |-> DefaultFrameworks]

DefaultComplianceConfig == ComplianceConfig(DefaultRiskHigh, DefaultRiskMedium)

ControlLibrary ==
    << [id |-> "DATA-001", framework |-> "GENERAL"],
       [id |-> "ACCESS-002", framework |-> "SOC2"],
       [id |-> "PAY-003", framework |-> "PCI-DSS"] >>

ControlIds == { ControlLibrary[i].id : i \in 1..Len(ControlLibrary) }

RECURSIVE FailedOf(_)
FailedOf(checks) ==
    IF checks = <<>> THEN <<>>
    ELSE IF ~Head(checks).passed
         THEN <<Head(checks)>> \o FailedOf(Tail(checks))
         ELSE FailedOf(Tail(checks))

\* The pairs <<failed, total>>, total <= 10, where the IEEE-754 double
\* (1 - failed/total) * 100 lies just below the exact integer value, so that
\* int() truncates one lower than the exact quotient (1 - 4/5 is
\* 0.19999999999999996).
FloatShortfall == { <<4, 5>>, <<8, 10>>, <<9, 10>> }

\* int((1 - failed / total) * 100); `/` raises ZeroDivisionError on total = 0.
IntScore(failed, total) ==
    IF total = 0 THEN [raised |-> "ZeroDivisionError", value |-> 0]
    ELSE [raised |-> "none",
          value |-> (((total - failed) * 100) \div total)
                    - (IF <<failed, total>> \in FloatShortfall THEN 1 ELSE 0)]

\* `>` in place of `>=`
AuditLevel_exclusive(config, score) ==
    IF score > config.risk_high THEN "LOW"
    ELSE IF score > config.risk_medium THEN "MEDIUM"
    ELSE "HIGH"

AuditLevel(config, score) ==
    IF score >= config.risk_high THEN "LOW"
    ELSE IF score >= config.risk_medium THEN "MEDIUM"
    ELSE "HIGH"

Remediate(id) ==
    CASE id = "DATA-001" -> "Remediate control DATA-001"
      [] id = "ACCESS-002" -> "Remediate control ACCESS-002"
      [] OTHER -> "Remediate control PAY-003"

\* `divisions` counts the `/` the method has evaluated when it returns or
\* raises.
AuditResult(score, level, failedIds, recs, divisions) ==
    [raised |-> "none", overall_score |-> score, risk_level |-> level,
     failed_controls |-> failedIds, recommendations |-> recs,
     divisions |-> divisions]

AuditRaised(err) ==
    [raised |-> err, overall_score |-> 0, risk_level |-> "",
     failed_controls |-> <<>>, recommendations |-> <<>>, divisions |-> 1]

AuditScoreBody(config, checks) ==
    LET total == Len(checks)
        failed == FailedOf(checks)
        q == IntScore(Len(failed), total)
    IN  IF q.raised # "none" THEN AuditRaised(q.raised)
        ELSE AuditResult(q.value, AuditLevel(config, q.value),
                         [i \in 1..Len(failed) |-> failed[i].control_id],
                         [i \in 1..Len(failed) |-> Remediate(failed[i].control_id)],
                         1)

\* the total == 0 guard left out
AuditScorer_score_unguarded(config, checks) == AuditScoreBody(config, checks)

AuditScorer_score(config, checks) ==
    IF Len(checks) = 0
    THEN AuditResult(0, "NONE", <<>>, <<"No controls evaluated">>, 0)
    ELSE AuditScoreBody(config, checks)

\* The check lists handed to score: n checks, the i-th on the i-th catalog
\* control (the catalog repeated from its start past its end), each passed
\* or failed.
CheckAt(i, passed) ==
    [control_id |-> ControlLibrary[((i - 1) % Len(ControlLibrary)) + 1].id,
     passed |-> passed]

CheckLists ==
    UNION { { [i \in 1..n |-> CheckAt(i, p[i])] : p \in [1..n -> BOOLEAN] }
            : n \in 0..MaxChecks }

AuditCutoffs == {40, 50, 75}

NoCall == [op |-> "none"]

\* Config(risk_high=high, risk_medium=medium); AuditScorer(config)
ConstructAuditConfig ==
    /\ session = "audit_scorer"
    /\ \E high \in AuditCutoffs, medium \in AuditCutoffs :
          auditConfig' = ComplianceConfig(high, medium)
    /\ lastAudit' = NoCall
    /\ prevAudit' = NoCall
    /\ UNCHANGED <<session, evalConfig, lastEvaluate, leadVars, riskVars,
                   memoryVars, runVars, forecastVars>>

\* scorer.score(checks)
AuditScore ==
    /\ session = "audit_scorer"
    /\ \E checks \in CheckLists :
          lastAudit' = [op |-> "score", checks |-> checks,
                        result |-> AuditScorer_score(auditConfig, checks)]
    /\ prevAudit' = IF lastAudit.op = "score"
                    THEN [op |-> "score",
                          overall_score |-> lastAudit.result.overall_score,
                          risk_level |-> lastAudit.result.risk_level]
                    ELSE NoCall
    /\ UNCHANGED <<session, auditConfig, evalConfig, lastEvaluate, leadVars,
                   riskVars, memoryVars, runVars, forecastVars>>

----------------------------------------------------------------------------
(* Lead scoring *)

DefaultScoreHot == 75
DefaultScoreWarm == 40

\* Config(): a plain dataclass, no __post_init__.
LeadConfig(hot, warm) == [score_hot |-> hot, score_warm |-> warm]

\* the two defaults exchanged
DefaultLeadConfig_swapped == LeadConfig(DefaultScoreWarm, DefaultScoreHot)

DefaultLeadConfig == LeadConfig(DefaultScoreHot, DefaultScoreWarm)

\* the warm cutoff tested before the hot one
LeadClassifier_classify_warm_first(config, score) ==
    IF score >= config.score_warm THEN "WARM"
    ELSE IF score >= config.score_hot THEN "HOT"
    ELSE "COLD"

LeadClassifier_classify(config, score) ==
    IF score >= config.score_hot THEN "HOT"
    ELSE IF score >= config.score_warm THEN "WARM"
    ELSE "COLD"

LeadCutoffs == {40, 60, 75}

\* classify takes any int; these lie below, on and above the cutoffs.
LeadScores == {0, 39, 40, 60, 74, 75, 100}

\* Config(score_hot=hot, score_warm=warm); LeadClassifier(config)
ConstructLeadConfig ==
    /\ session = "lead_classifier"
    /\ \E hot \in LeadCutoffs, warm \in LeadCutoffs :
          leadConfig' = LeadConfig(hot, warm)
    /\ lastLead' = NoCall
    /\ prevLead' = NoCall
    /\ UNCHANGED <<session, complianceVars, riskVars, memoryVars, runVars,
                   forecastVars>>

\* classifier.classify(score)
LeadClassify ==
    /\ session = "lead_classifier"
    /\ \E score \in LeadScores :
          lastLead' = [op |-> "classify", score |-> score,
                       tier |-> LeadClassifier_classify(leadConfig, score)]
    /\ prevLead' = lastLead
    /\ UNCHANGED <<session, complianceVars, leadConfig, riskVars, memoryVars,
                   runVars, forecastVars>>

----------------------------------------------------------------------------
(* Scam intelligence: message texts are sequences of characters *)

UpperLetters ==
    << "A", "B", "C", "D", "E", "F", "G", "H", "I", "J", "K", "L", "M",
       "N", "O", "P", "Q", "R", "S", "T", "U", "V", "W", "X", "Y", "Z" >>

LowerLetters ==
    << "a", "b", "c", "d", "e", "f", "g", "h", "i", "j", "k", "l", "m",
       "n", "o", "p", "q", "r", "s", "t", "u", "v", "w", "x", "y", "z" >>

LowerChar(c) ==
    IF \E i \in 1..Len(UpperLetters) : UpperLetters[i] = c
    THEN LowerLetters[CHOOSE i \in 1..Len(UpperLetters) : UpperLetters[i] = c]
    ELSE c

\* str.lower()
Lower(text) == [i \in 1..Len(text) |-> LowerChar(text[i])]

\* `sub in text`
Contains(text, sub) ==
    \E i \in 0..(Len(text) - Len(sub)) : SubSeq(text, i + 1, i + Len(sub)) = sub

KwUrgent == << "u", "r", "g", "e", "n", "t" >>
KwActNow == << "a", "c", "t", " ", "n", "o", "w" >>
KwGuaranteed == << "g", "u", "a", "r", "a", "n", "t", "e", "e", "d" >>
KwDollar == << "$" >>
KwClick == << "c", "l", "i", "c", "k" >>
KwLink == << "l", "i", "n", "k" >>

TextEmpty ==
    <<>>
TextHello ==
    << "h", "e", "l", "l", "o" >>
TextUrgent ==
    << "U", "R", "G", "E", "N", "T" >>
TextActNow ==
    << "A", "c", "t", " ", "N", "o", "w" >>
TextDollar ==
    << "$", "5" >>
TextClick ==
    << "c", "l", "i", "c", "k" >>
TextUrgentLink ==
    << "u", "r", "g", "e", "n", "t", " ", "l", "i", "n", "k" >>
TextExample ==
    << "U", "R", "G", "E", "N", "T", "!", " ", "g", "u", "a", "r", "a",
       "n", "t", "e", "e", "d", " ", "$", "$", "$", " ", "c", "l", "i",
       "c", "k", " ", "t", "h", "i", "s", " ", "l", "i", "n", "k", " ",
       "n", "o", "w" >>

TextExampleHead ==
    << "U", "R", "G", "E", "N", "T", "!", " ", "g", "u", "a", "r", "a", "n",
       "t", "e", "e", "d", " ", "$", " ", "o", "k" >>

TextDollarLink == << "$", " ", "l", "i", "n", "k" >>

\* every keyword of every family at once
TextAllKeywords ==
    << "U", "r", "g", "e", "n", "t", ":", " ", "a", "c", "t", " ", "n", "o",
       "w", ",", " ", "G", "U", "A", "R", "A", "N", "T", "E", "E", "D", " ",
       "$", "9", ",", " ", "c", "l", "i", "c", "k", " ", "l", "i", "n", "k" >>

Texts ==
    { TextEmpty, TextHello, TextUrgent, TextActNow, TextDollar, TextClick,
      TextUrgentLink, TextExample, TextExampleHead, TextDollarLink,
      TextAllKeywords }

\* Thresholds and scores are in hundredths: 0.75 is 75.  The float sums
\* 0.2 + 0.2, 0.2 + 0.15 and 0.2 + 0.2 + 0.15 are the doubles 0.4, 0.35 and
\* 0.55, so comparing hundredths compares the floats.
DefaultRiskThresholdHigh == 75
DefaultRiskThresholdMedium == 45
UrgencyIncrement == 20
IncentiveIncrement == 20
LinkIncrement == 15
ScoreCeiling == 100

\* Config(): a plain dataclass, no __post_init__.
ScamConfig(high, medium) ==
    [risk_threshold_high |-> high, risk_threshold_medium |-> medium,
     enable_memory |-> TRUE]

DefaultScamConfig ==
    ScamConfig(DefaultRiskThresholdHigh, DefaultRiskThresholdMedium)

Min(a, b) == IF a <= b THEN a ELSE b

RiskLevel(config, score) ==
    IF score >= config.risk_threshold_high THEN "HIGH"
    ELSE IF score >= config.risk_threshold_medium THEN "MEDIUM"
    ELSE "LOW"

\* every keyword found adds its family's increment
RiskEngine_score_per_keyword(config, content) ==
    LET text == Lower(content)
        hits(kw, inc) == IF Contains(text, kw) THEN inc ELSE 0
        urgency == Contains(text, KwUrgent) \/ Contains(text, KwActNow)
        incentive == Contains(text, KwGuaranteed) \/ Contains(text, KwDollar)
        link == Contains(text, KwClick) \/ Contains(text, KwLink)
        score == Min(hits(KwUrgent, UrgencyIncrement)
                     + hits(KwActNow, UrgencyIncrement)
                     + hits(KwGuaranteed, IncentiveIncrement)
                     + hits(KwDollar, IncentiveIncrement)
                     + hits(KwClick, LinkIncrement)
                     + hits(KwLink, LinkIncrement), ScoreCeiling)
    IN  [score |-> score,
         level |-> RiskLevel(config, score),
         indicators |->
            (IF urgency THEN <<"Urgency pressure">> ELSE <<>>)
            \o (IF incentive THEN <<"Financial incentive">> ELSE <<>>)
            \o (IF link THEN <<"External link request">> ELSE <<>>)]

RiskEngine_score(config, content) ==
    LET text == Lower(content)
        urgency == Contains(text, KwUrgent) \/ Contains(text, KwActNow)
        incentive == Contains(text, KwGuaranteed) \/ Contains(text, KwDollar)
        link == Contains(text, KwClick) \/ Contains(text, KwLink)
        score == Min((IF urgency THEN UrgencyIncrement ELSE 0)
                     + (IF incentive THEN IncentiveIncrement ELSE 0)
                     + (IF link THEN LinkIncrement ELSE 0), ScoreCeiling)
    IN  [score |-> score,
         level |-> RiskLevel(config, score),
         indicators |->
            (IF urgency THEN <<"Urgency pressure">> ELSE <<>>)
            \o (IF incentive THEN <<"Financial incentive">> ELSE <<>>)
            \o (IF link THEN <<"External link request">> ELSE <<>>)]

ScamCutoffs == {20, 35, 45, 55, 75}

\* Config(risk_threshold_high=high, risk_threshold_medium=medium);
\* RiskEngine(config)
ConstructScamConfig ==
    /\ session = "risk_engine"
    /\ \E high \in ScamCutoffs, medium \in ScamCutoffs :
          scamConfig' = ScamConfig(high, medium)
    /\ lastRisk' = NoCall
    /\ prevRisk' = NoCall
    /\ UNCHANGED <<session, complianceVars, leadVars, memoryVars, runVars,
                   forecastVars>>

\* engine.score(Message(channel, content, metadata))
RiskScore ==
    /\ session = "risk_engine"
    /\ \E content \in Texts :
          lastRisk' = [op |-> "score", content |-> content,
                       result |-> RiskEngine_score(scamConfig, content)]
    /\ prevRisk' = IF lastRisk.op = "score"
                   THEN [op |-> "score", score |-> lastRisk.result.score,
                         level |-> lastRisk.result.level]
                   ELSE NoCall
    /\ UNCHANGED <<session, complianceVars, leadVars, scamConfig, memoryVars,
                   runVars, forecastVars>>

----------------------------------------------------------------------------
(* Pattern memory *)

PrefixLen == 20

\* p[:20]
Prefix(p) == SubSeq(p, 1, Min(Len(p), PrefixLen))

\* the store replaced by the new entry instead of extended
PatternMemory_add_replacing(store, content) == <<content>>

\* self._patterns.append(message.content)
PatternMemory_add(store, content) == Append(store, content)

RECURSIVE PatternMemory_similar(_, _)
\* [p for p in self._patterns if p[:20] in text]
PatternMemory_similar(store, text) ==
    IF store = <<>> THEN <<>>
    ELSE IF Contains(text, Prefix(Head(store)))
         THEN <<Head(store)>> \o PatternMemory_similar(Tail(store), text)
         ELSE PatternMemory_similar(Tail(store), text)

MemoryTexts == {TextEmpty, TextHello, TextUrgent, TextExample, TextExampleHead}

\* memory.add(Message(channel, content, metadata))
MemoryAdd ==
    /\ session = "pattern_memory"
    /\ Len(patterns) < MaxPatterns
    /\ \E content \in MemoryTexts :
          /\ patterns' = PatternMemory_add(patterns, content)
          /\ added' = added \cup {content}
    /\ UNCHANGED <<session, complianceVars, leadVars, riskVars, lastSimilar,
                   runVars, forecastVars>>

\* memory.similar(text)
MemorySimilar ==
    /\ session = "pattern_memory"
    /\ \E text \in MemoryTexts :
          lastSimilar' = [op |-> "similar", text |-> text,
                          stored |-> Len(patterns),
                          result |-> PatternMemory_similar(patterns, text)]
    /\ UNCHANGED <<session, complianceVars, leadVars, riskVars, patterns, added,
                   runVars, forecastVars>>

----------------------------------------------------------------------------
(* Exporters and runners *)

\* time passes between two calls; int(datetime.utcnow().timestamp()) is `now`
Tick ==
    /\ session \in {"compliance_run", "lead_run", "scam_run", "forecast_run"}
    /\ now < MaxTime
    /\ now' = now + 1
    /\ UNCHANGED <<session, complianceVars, leadVars, riskVars, memoryVars,
                   runTexts, runMemory, lastRun, exportLog, files, forecastVars>>

\* f"<prefix>_{int(datetime.utcnow().timestamp())}.json" in export_dir
FileName(prefix, ts) == [prefix |-> prefix, ts |-> ts]

\* open(path, "w") creates the file or truncates the one there; json.dump
WriteFile(dir, name, payload) ==
    [f \in (DOMAIN dir) \cup {name} |-> IF f = name THEN payload ELSE dir[f]]

\* The payload's "timestamp" is kept to the second.
AuditExporter_export(result, ts) ==
    [name |-> FileName("audit", ts),
     payload |-> [timestamp |-> ts,
                  overall_score |-> result.overall_score,
                  risk_level |-> result.risk_level,
                  failed_controls |-> result.failed_controls,
                  recommendations |-> result.recommendations]]

EvidenceExporter_export(channel, content, result, ts) ==
    [name |-> FileName("evidence", ts),
     payload |-> [timestamp |-> ts, channel |-> channel, content |-> content,
                  risk_score |-> result.score, risk_level |-> result.level,
                  indicators |-> result.indicators]]

\* A snapshot maps some control ids to a value; "True" and "False" stand for
\* the Python values, and an id outside the domain is a missing key.
SnapshotValues == {"True", "False"}

Snapshots == UNION { [ids -> SnapshotValues] : ids \in SUBSET ControlIds }

\* bool(v): False, 0, "" and None are falsy
Truthy(v) == v \notin {"False", "0", "", "None"}

\* system_snapshot.get(id, False)
SnapshotGet(snapshot, id) ==
    IF id \in DOMAIN snapshot THEN snapshot[id] ELSE "False"

InFrameworks(config, framework) ==
    \E i \in 1..Len(config.enabled_frameworks) :
        config.enabled_frameworks[i] = framework

RECURSIVE EvaluateControls_mark_failed(_, _, _)
\* a control of a disabled framework reported as failed instead of skipped
EvaluateControls_mark_failed(config, controls, snapshot) ==
    IF controls = <<>> THEN <<>>
    ELSE << [control_id |-> Head(controls).id,
             passed |-> InFrameworks(config, Head(controls).framework)
                        /\ Truthy(SnapshotGet(snapshot, Head(controls).id))] >>
         \o EvaluateControls_mark_failed(config, Tail(controls), snapshot)

RECURSIVE EvaluateControls(_, _, _)
EvaluateControls(config, controls, snapshot) ==
    IF controls = <<>> THEN <<>>
    ELSE IF ~InFrameworks(config, Head(controls).framework)
         THEN EvaluateControls(config, Tail(controls), snapshot)
         ELSE << [control_id |-> Head(controls).id,
                  passed |-> Truthy(SnapshotGet(snapshot, Head(controls).id))] >>
              \o EvaluateControls(config, Tail(controls), snapshot)

\* The ControlCheck's description and evidence are not read by the scorer
\* and are left out.
ComplianceEvaluator_evaluate(config, snapshot) ==
    EvaluateControls(config, ControlLibrary, snapshot)

\* The values an evaluated snapshot holds: the Python True and False, the
\* string "yes" and the integer 0.
EvaluatorValues == {"True", "False", "yes", "0"}

EvaluatorSnapshots ==
    UNION { [ids -> EvaluatorValues] : ids \in SUBSET ControlIds }

\* The enabled_frameworks lists a Config is built with: every sublist of the
\* default list, the empty list among them (__post_init__ replaces only None).
FrameworkLists ==
    { SelectSeq(DefaultFrameworks, LAMBDA f : f \in chosen)
      : chosen \in SUBSET { DefaultFrameworks[i] : i \in 1..Len(DefaultFrameworks) } }

\* Config(enabled_frameworks=frameworks); ComplianceEvaluator(config)
ConstructEvaluator ==
    /\ session = "compliance_evaluator"
    /\ \E frameworks \in FrameworkLists :
          evalConfig' = [DefaultComplianceConfig
                            EXCEPT !.enabled_frameworks = frameworks]
    /\ lastEvaluate' = NoCall
    /\ UNCHANGED <<session, auditConfig, lastAudit, prevAudit, leadVars,
                   riskVars, memoryVars, runVars, forecastVars>>

\* evaluator.evaluate(system_snapshot)
Evaluate ==
    /\ session = "compliance_evaluator"
    /\ \E snapshot \in EvaluatorSnapshots :
          lastEvaluate' = [op |-> "evaluate", snapshot |-> snapshot,
                           checks |-> ComplianceEvaluator_evaluate(evalConfig,
                                                                   snapshot)]
    /\ UNCHANGED <<session, auditConfig, lastAudit, prevAudit, evalConfig,
                   leadVars, riskVars, memoryVars, runVars, forecastVars>>

\* compliance run(system_snapshot)
ComplianceRun ==
    /\ session = "compliance_run"
    /\ Len(exportLog) < MaxRuns
    /\ \E snapshot \in Snapshots :
          LET config == DefaultComplianceConfig
              checks == ComplianceEvaluator_evaluate(config, snapshot)
              result == AuditScorer_score(config, checks)
              out == AuditExporter_export(result, now)
          IN  /\ files' = WriteFile(files, out.name, out.payload)
              /\ exportLog' = Append(exportLog, out.name)
              /\ lastRun' = [op |-> "compliance_run", config |-> config,
                             snapshot |-> snapshot,
                             result |-> result, file |-> out.name]
    /\ UNCHANGED <<session, complianceVars, leadVars, riskVars, memoryVars,
                   runTexts, runMemory, now, forecastVars>>

\* Lead attributes: a mapping from some of the five keys to a value; "True"
\* and "False" stand for the Python values, the other strings for themselves.
AttrsNone == <<>>

AttrsExample ==
    ("budget" :> "True") @@ ("decision_maker" :> "True")
    @@ ("timeline" :> "immediate") @@ ("email_verified" :> "False")
    @@ ("company_size" :> 5)

AttrsAll ==
    ("budget" :> "5000") @@ ("decision_maker" :> "True")
    @@ ("timeline" :> "30_days") @@ ("email_verified" :> "True")
    @@ ("company_size" :> 11)

AttrsWeak ==
    ("decision_maker" :> "yes") @@ ("timeline" :> "later")
    @@ ("email_verified" :> "True") @@ ("company_size" :> 10)

LeadAttributeSets == {AttrsNone, AttrsExample, AttrsAll, AttrsWeak}

\* bool(v) of an attribute value
TruthyAttr(v) == v \notin {"", "False"}

HasKey(attrs, key) == key \in DOMAIN attrs

\* ScoringRules.evaluate(lead)
ScoringRules_evaluate(attrs) ==
    LET score ==
          (IF HasKey(attrs, "budget") /\ TruthyAttr(attrs["budget"]) THEN 20 ELSE 0)
          + (IF HasKey(attrs, "decision_maker") /\ attrs["decision_maker"] = "True"
             THEN 25 ELSE 0)
          + (IF HasKey(attrs, "timeline")
                /\ attrs["timeline"] \in {"immediate", "30_days"}
             THEN 15 ELSE 0)
          + (IF HasKey(attrs, "email_verified")
                /\ TruthyAttr(attrs["email_verified"])
             THEN 10 ELSE 0)
          + (IF (IF HasKey(attrs, "company_size") THEN attrs["company_size"] ELSE 0)
                > 10
             THEN 10 ELSE 0)
    IN  Min(score, 100)

ActionRecommender_recommend(tier) ==
    IF tier = "HOT" THEN "Immediate sales outreach"
    ELSE IF tier = "WARM" THEN "Nurture with follow-up sequence"
    ELSE "Add to long-term drip campaign"

LeadIds == {"L1", "L2"}

\* f"lead_{lead.lead_id}"
LeadPrefix(id) == IF id = "L1" THEN "lead_L1" ELSE "lead_L2"

\* `signals` (the attribute keys) are kept as a set.
LeadExporter_export(id, result, ts) ==
    [name |-> FileName(LeadPrefix(id), ts),
     payload |-> [timestamp |-> ts, lead_id |-> id, score |-> result.score,
                  tier |-> result.tier, signals |-> result.signals,
                  recommended_action |-> result.recommended_action]]

\* lead run(lead_input)
LeadRun ==
    /\ session = "lead_run"
    /\ Len(exportLog) < MaxRuns
    /\ \E id \in LeadIds, attrs \in LeadAttributeSets :
          LET config == DefaultLeadConfig
              score == ScoringRules_evaluate(attrs)
              tier == LeadClassifier_classify(config, score)
              result == [score |-> score, tier |-> tier,
                         signals |-> DOMAIN attrs,
                         recommended_action |-> ActionRecommender_recommend(tier)]
              out == LeadExporter_export(id, result, now)
          IN  /\ files' = WriteFile(files, out.name, out.payload)
              /\ exportLog' = Append(exportLog, out.name)
              /\ lastRun' = [op |-> "lead_run", config |-> config,
                             attributes |-> attrs, result |-> result,
                             file |-> out.name]
    /\ UNCHANGED <<session, complianceVars, leadVars, riskVars, memoryVars,
                   runTexts, runMemory, now, forecastVars>>

Channels == {"sms", "email"}

RunTexts == {TextHello, TextUrgent, TextExample}

\* scam run(message_text, channel)
ScamRun ==
    /\ session = "scam_run"
    /\ Len(exportLog) < MaxRuns
    /\ \E text \in RunTexts, channel \in Channels :
          LET config == DefaultScamConfig
              memory == <<>>        \* memory = PatternMemory()
              result == RiskEngine_score(config, text)
              out == EvidenceExporter_export(channel, text, result, now)
          IN  /\ runMemory' = IF config.enable_memory
                              THEN PatternMemory_add(memory, text)
                              ELSE memory
              /\ runTexts' = Append(runTexts, text)
              /\ files' = WriteFile(files, out.name, out.payload)
              /\ exportLog' = Append(exportLog, out.name)
              /\ lastRun' = [op |-> "scam_run", config |-> config,
                             text |-> text,
                             result |-> result, file |-> out.name]
    /\ UNCHANGED <<session, complianceVars, leadVars, riskVars, memoryVars,
                   now, forecastVars>>

----------------------------------------------------------------------------
(* Revenue forecasting *)

ForecastDays == 30
ConfidenceRamp == 30

DefaultForecastConfig == [forecast_days |-> ForecastDays, currency |-> "USD"]

\* Amounts are whole numbers held as floats; account_id and metadata are
\* read by no engine and are left out.
Transaction(amount, timestamp) == [amount |-> amount, timestamp |-> timestamp]

Amounts == {1, 2, 3}
Timestamps == {1, 2}

RECURSIVE SumAmounts(_)
SumAmounts(txs) ==
    IF txs = <<>> THEN 0 ELSE Head(txs).amount + SumAmounts(Tail(txs))

RECURSIVE InsertByTimestamp(_, _)
\* x goes after every element whose timestamp is not greater (stable)
InsertByTimestamp(sorted, x) ==
    IF sorted = <<>> THEN <<x>>
    ELSE IF Head(sorted).timestamp <= x.timestamp
         THEN <<Head(sorted)>> \o InsertByTimestamp(Tail(sorted), x)
         ELSE <<x>> \o sorted

RECURSIVE SortedByTimestamp(_)
\* sorted(transactions, key=lambda x: x.timestamp)
SortedByTimestamp(txs) ==
    IF txs = <<>> THEN <<>>
    ELSE InsertByTimestamp(SortedByTimestamp(SubSeq(txs, 1, Len(txs) - 1)),
                           txs[Len(txs)])

\* statistics.mean: the exact ratio sum / count, kept as a fraction.  On
\* whole amounts of this size two means are equal as floats exactly when the
\* fractions are equal.
Mean(txs) == [num |-> SumAmounts(txs), den |-> Len(txs)]

MeanLess(a, b) == a.num * b.den < b.num * a.den

\* the midpoint rounded up: the middle element falls into the first half
TrendEngine_analyze_ceil_midpoint(txs) ==
    IF Len(txs) < 2 THEN "INSUFFICIENT_DATA"
    ELSE LET sorted_tx == SortedByTimestamp(txs)
             midpoint == (Len(sorted_tx) + 1) \div 2
             first_half == Mean(SubSeq(sorted_tx, 1, midpoint))
             second_half == Mean(SubSeq(sorted_tx, midpoint + 1, Len(sorted_tx)))
         IN  IF MeanLess(first_half, second_half) THEN "UPWARD"
             ELSE IF MeanLess(second_half, first_half) THEN "DOWNWARD"
             ELSE "FLAT"

TrendEngine_analyze(txs) ==
    IF Len(txs) < 2 THEN "INSUFFICIENT_DATA"
    ELSE LET sorted_tx == SortedByTimestamp(txs)
             midpoint == Len(sorted_tx) \div 2
             first_half == Mean(SubSeq(sorted_tx, 1, midpoint))
             second_half == Mean(SubSeq(sorted_tx, midpoint + 1, Len(sorted_tx)))
         IN  IF MeanLess(first_half, second_half) THEN "UPWARD"
             ELSE IF MeanLess(second_half, first_half) THEN "DOWNWARD"
             ELSE "FLAT"

\* round(num / den, 2) in hundredths; with den < 8 and whole num no quotient
\* lies halfway between two hundredths.
Round2(num, den) == (200 * num + den) \div (2 * den)

TrendAssumption(trend) ==
    CASE trend = "UPWARD" -> "Trend assumed: UPWARD"
      [] trend = "DOWNWARD" -> "Trend assumed: DOWNWARD"
      [] trend = "FLAT" -> "Trend assumed: FLAT"
      [] OTHER -> "Trend assumed: INSUFFICIENT_DATA"

\* `divisions` counts the `/` the method has evaluated when it returns.
ForecastResult(projected, average, confidence, trend, assumptions, divisions) ==
    [projected_total |-> projected, daily_average |-> average,
     confidence |-> confidence, trend |-> trend, assumptions |-> assumptions,
     divisions |-> divisions]

ForecastBody(config, txs) ==
    LET total == SumAmounts(txs)
        count == IF Len(txs) >= 1 THEN Len(txs) ELSE 1   \* max(len, 1)
        trend == TrendEngine_analyze(txs)
    IN  ForecastResult(Round2(total * config.forecast_days, count),
                       Round2(total, count),
                       IF Len(txs) >= ConfidenceRamp THEN 100
                       ELSE Round2(Len(txs), ConfidenceRamp),
                       trend,
                       <<"Historical averages continue", TrendAssumption(trend)>>,
                       2)

ForecastEngine_forecast(config, txs) ==
    IF txs = <<>>
    THEN ForecastResult(0, 0, 0, "NONE", <<"No data available">>, 0)
    ELSE ForecastBody(config, txs)

\* the client appends Transaction(account_id, amount, timestamp, metadata)
AddTransaction ==
    /\ session \in {"trend_engine", "forecast_engine"}
    /\ Len(batch) < MaxTx
    /\ \E amount \in Amounts, timestamp \in Timestamps :
          batch' = Append(batch, Transaction(amount, timestamp))
    /\ UNCHANGED <<session, complianceVars, leadVars, riskVars, memoryVars,
                   runVars, lastTrend, lastForecast>>

\* TrendEngine().analyze(transactions)
TrendAnalyze ==
    /\ session = "trend_engine"
    /\ lastTrend' = [op |-> "analyze", transactions |-> batch,
                     label |-> TrendEngine_analyze(batch)]
    /\ UNCHANGED <<session, complianceVars, leadVars, riskVars, memoryVars,
                   runVars, batch, lastForecast>>

\* ForecastEngine(Config()).forecast(transactions)
Forecast ==
    /\ session = "forecast_engine"
    /\ lastForecast' = [op |-> "forecast", transactions |-> batch,
                        result |-> ForecastEngine_forecast(DefaultForecastConfig,
                                                           batch)]
    /\ UNCHANGED <<session, complianceVars, leadVars, riskVars, memoryVars,
                   runVars, batch, lastTrend>>

\* The amount of a transaction dict: a number, a string that spells one, a
\* string that spells none, or None.
RawAmounts ==
    { [kind |-> "number", val |-> 1], [kind |-> "numeric_str", val |-> 3],
      [kind |-> "text", val |-> 0], [kind |-> "none", val |-> 0] }

\* float(t.get("amount"))
ParseFloat(raw) ==
    CASE raw.kind = "number" -> [raised |-> "none", value |-> raw.val]
      [] raw.kind = "numeric_str" -> [raised |-> "none", value |-> raw.val]
      [] raw.kind = "text" -> [raised |-> "ValueError", value |-> 0]
      [] OTHER -> [raised |-> "TypeError", value |-> 0]

RECURSIVE BuildTransactions_skipping(_)
\* a record whose amount does not parse is dropped instead of raising
BuildTransactions_skipping(input) ==
    IF input = <<>> THEN [raised |-> "none", transactions |-> <<>>]
    ELSE LET amount == ParseFloat(Head(input).amount)
             rest == BuildTransactions_skipping(Tail(input))
         IN  IF amount.raised # "none" THEN rest
             ELSE [raised |-> "none",
                   transactions |->
                      <<Transaction(amount.value, Head(input).timestamp)>>
                      \o rest.transactions]

RECURSIVE BuildTransactions(_)
\* [Transaction(..., amount=float(t.get("amount")), ...) for t in input]:
\* the first record whose amount does not parse raises out of the list
BuildTransactions(input) ==
    IF input = <<>> THEN [raised |-> "none", transactions |-> <<>>]
    ELSE LET amount == ParseFloat(Head(input).amount)
             rest == BuildTransactions(Tail(input))
         IN  IF amount.raised # "none"
             THEN [raised |-> amount.raised, transactions |-> <<>>]
             ELSE IF rest.raised # "none" THEN rest
             ELSE [raised |-> "none",
                   transactions |->
                      <<Transaction(amount.value, Head(input).timestamp)>>
                      \o rest.transactions]

ForecastExporter_export(config, result, ts) ==
    [name |-> FileName("forecast", ts),
     payload |-> [timestamp |-> ts,
                  projected_total |-> result.projected_total,
                  daily_average |-> result.daily_average,
                  confidence |-> result.confidence,
                  trend |-> result.trend,
                  assumptions |-> result.assumptions,
                  currency |-> config.currency]]

\* the client appends a transaction dict to the list it will hand to run
AddRecord ==
    /\ session = "forecast_run"
    /\ Len(batch) < MaxBatch
    /\ \E raw \in RawAmounts, timestamp \in Timestamps :
          batch' = Append(batch, [amount |-> raw, timestamp |-> timestamp])
    /\ UNCHANGED <<session, complianceVars, leadVars, riskVars, memoryVars,
                   runVars, lastTrend, lastForecast>>

NoFile == FileName("none", 0)

\* What run has done when it returns or raises: `calls` lists the engine and
\* exporter methods it evaluated, in order.
ForecastRunOutcome(input, ts) ==
    LET config == DefaultForecastConfig
        built == BuildTransactions(input)
        result == ForecastEngine_forecast(config, built.transactions)
        out == ForecastExporter_export(config, result, ts)
    IN  IF built.raised # "none"
        THEN [raised |-> built.raised, calls |-> <<>>,
              result |-> ForecastResult(0, 0, 0, "", <<>>, 0),
              file |-> NoFile, payload |-> <<>>]
        ELSE [raised |-> "none", calls |-> <<"forecast", "export">>,
              result |-> result, file |-> out.name, payload |-> out.payload]

\* forecasting run(transactions_input)
ForecastRun ==
    /\ session = "forecast_run"
    /\ Len(exportLog) < MaxRuns
    /\ LET o == ForecastRunOutcome(batch, now)
       IN  /\ lastRun' = [op |-> "forecast_run", input |-> batch,
                          raised |-> o.raised, calls |-> o.calls,
                          result |-> o.result, file |-> o.file,
                          filesBefore |-> files]
           /\ IF o.raised # "none"
              THEN UNCHANGED <<files, exportLog>>
              ELSE /\ files' = WriteFile(files, o.file, o.payload)
                   /\ exportLog' = Append(exportLog, o.file)
    /\ UNCHANGED <<session, complianceVars, leadVars, riskVars, memoryVars,
                   runTexts, runMemory, now, forecastVars>>

----------------------------------------------------------------------------

Sessions ==
    {"audit_scorer", "lead_classifier", "risk_engine", "pattern_memory",
     "compliance_run", "lead_run", "scam_run", "trend_engine", "forecast_engine",
     "forecast_run", "compliance_evaluator"}

Init ==
    /\ session \in Sessions
    /\ auditConfig = DefaultComplianceConfig
    /\ lastAudit = NoCall
    /\ prevAudit = NoCall
    /\ evalConfig = DefaultComplianceConfig
    /\ lastEvaluate = NoCall
    /\ leadConfig = DefaultLeadConfig
    /\ lastLead = NoCall
    /\ prevLead = NoCall
    /\ scamConfig = DefaultScamConfig
    /\ lastRisk = NoCall
    /\ prevRisk = NoCall
    /\ patterns = <<>>
    /\ added = {}
    /\ lastSimilar = NoCall
    /\ runTexts = <<>>
    /\ runMemory = <<>>
    /\ lastRun = NoCall
    /\ now = 0
    /\ exportLog = <<>>
    /\ files = <<>>
    /\ batch = <<>>
    /\ lastTrend = NoCall
    /\ lastForecast = NoCall

Next ==
    \/ ConstructAuditConfig
    \/ AuditScore
    \/ ConstructLeadConfig
    \/ LeadClassify
    \/ ConstructScamConfig
    \/ RiskScore
    \/ MemoryAdd
    \/ MemorySimilar
    \/ Tick
    \/ ComplianceRun
    \/ LeadRun
    \/ ScamRun
    \/ AddTransaction
    \/ TrendAnalyze
    \/ Forecast
    \/ AddRecord
    \/ ForecastRun
    \/ ConstructEvaluator
    \/ Evaluate

Spec == Init /\ [][Next]_vars

----------------------------------------------------------------------------
(* Claims *)

Has(seq, x) == \E i \in 1..Len(seq) : seq[i] = x

FailedCount(checks) == Cardinality({ i \in 1..Len(checks) : ~checks[i].passed })

\* (passedCount / total) x 100 rounded to the nearest integer
NearestPercent(passedCount, total) == (200 * passedCount + total) \div (2 * total)

\* C1: for a non-empty list of checks with `failed` failing out of `total`,
\* overall_score is (1 - failed/total) x 100 rounded to the nearest integer;
\* 1 failed out of 3 gives 67 and, under the default cutoffs, "MEDIUM".
C1_ScoreIsRoundedPercentage ==
    (lastAudit.op = "score" /\ Len(lastAudit.checks) > 0) =>
        LET total == Len(lastAudit.checks)
            failed == FailedCount(lastAudit.checks)
        IN  /\ lastAudit.result.raised = "none"
            /\ lastAudit.result.overall_score
                  = NearestPercent(total - failed, total)
            /\ (failed = 1 /\ total = 3) =>
                  /\ lastAudit.result.overall_score = 67
                  /\ (auditConfig = DefaultComplianceConfig
                        => lastAudit.result.risk_level = "MEDIUM")

C3_MemorySurvivesRuns ==
    \A i \in 1..Len(runTexts) : Has(runMemory, runTexts[i])

\* C4: each export call writes to a file name that no earlier call wrote.
C4_ExportsNeverOverwrite ==
    \A i, j \in 1..Len(exportLog) : i < j => exportLog[i] # exportLog[j]

\* C5: threshold inclusivity: in the three tiering verticals a score equal
\* to the high cutoff yields the top-cutoff tier (compliance "LOW", lead
\* "HOT", scam "HIGH") and a score equal to the medium/warm cutoff and below
\* the high cutoff yields the middle tier, for every configured pair.
C5_ThresholdInclusive ==
    /\ (lastAudit.op = "score" /\ Len(lastAudit.checks) > 0) =>
          LET r == lastAudit.result
          IN  /\ r.overall_score = auditConfig.risk_high => r.risk_level = "LOW"
              /\ (r.overall_score = auditConfig.risk_medium
                    /\ r.overall_score < auditConfig.risk_high)
                  => r.risk_level = "MEDIUM"
    /\ lastLead.op = "classify" =>
          /\ lastLead.score = leadConfig.score_hot => lastLead.tier = "HOT"
          /\ (lastLead.score = leadConfig.score_warm
                /\ lastLead.score < leadConfig.score_hot)
              => lastLead.tier = "WARM"
    /\ lastRisk.op = "score" =>
          LET r == lastRisk.result
          IN  /\ r.score = scamConfig.risk_threshold_high => r.level = "HIGH"
              /\ (r.score = scamConfig.risk_threshold_medium
                    /\ r.score < scamConfig.risk_threshold_high)
                  => r.level = "MEDIUM"

C5_Witness ==
    /\ lastAudit.op = "score"
    /\ Len(lastAudit.checks) > 0
    /\ lastAudit.result.overall_score = auditConfig.risk_medium
    /\ lastAudit.result.overall_score < auditConfig.risk_high
    /\ lastAudit.result.risk_level = "MEDIUM"
    /\ prevAudit.op = "score"
    /\ prevAudit.overall_score = auditConfig.risk_high
    /\ prevAudit.risk_level = "LOW"

LeadRank(tier) == CASE tier = "COLD" -> 1 [] tier = "WARM" -> 2 [] tier = "HOT" -> 3

RiskRank(level) ==
    CASE level = "LOW" -> 1 [] level = "MEDIUM" -> 2 [] level = "HIGH" -> 3

\* C6: tier assignment is monotonic in the score under one Config: of two
\* classifications the one with the greater or equal score has a lead tier
\* and a scam level that is not lower, and a compliance risk level that is
\* not higher (the compliance calls are those on a non-empty check list).
C6_TierMonotonic ==
    /\ (prevLead.op = "classify" /\ lastLead.op = "classify") =>
          /\ prevLead.score <= lastLead.score
                => LeadRank(prevLead.tier) <= LeadRank(lastLead.tier)
          /\ lastLead.score <= prevLead.score
                => LeadRank(lastLead.tier) <= LeadRank(prevLead.tier)
    /\ (prevRisk.op = "score" /\ lastRisk.op = "score") =>
          /\ prevRisk.score <= lastRisk.result.score
                => RiskRank(prevRisk.level) <= RiskRank(lastRisk.result.level)
          /\ lastRisk.result.score <= prevRisk.score
                => RiskRank(lastRisk.result.level) <= RiskRank(prevRisk.level)
    /\ (prevAudit.op = "score" /\ lastAudit.op = "score"
          /\ prevAudit.risk_level # "NONE"
          /\ lastAudit.result.risk_level # "NONE") =>
          /\ prevAudit.overall_score <= lastAudit.result.overall_score
                => RiskRank(lastAudit.result.risk_level)
                     <= RiskRank(prevAudit.risk_level)
          /\ lastAudit.result.overall_score <= prevAudit.overall_score
                => RiskRank(prevAudit.risk_level)
                     <= RiskRank(lastAudit.result.risk_level)

C6_Witness ==
    /\ prevLead.op = "classify"
    /\ lastLead.op = "classify"
    /\ prevLead.score < lastLead.score
    /\ prevLead.tier = "WARM"
    /\ lastLead.tier = "HOT"
    /\ leadConfig # DefaultLeadConfig

\* C7: empty input yields the distinguished empty result, reached before any
\* division: score on zero checks returns 0, "NONE", no failed control and
\* the one recommendation "No controls evaluated"; forecast on zero
\* transactions returns 0, 0, 0, "NONE" and the one no-data assumption.
C7_EmptyInputResult ==
    /\ (lastAudit.op = "score" /\ lastAudit.checks = <<>>) =>
          LET r == lastAudit.result
          IN  /\ r.raised = "none"
              /\ r.overall_score = 0
              /\ r.risk_level = "NONE"
              /\ r.failed_controls = <<>>
              /\ r.recommendations = <<"No controls evaluated">>
              /\ r.divisions = 0
    /\ (lastForecast.op = "forecast" /\ lastForecast.transactions = <<>>) =>
          LET r == lastForecast.result
          IN  /\ r.projected_total = 0
              /\ r.daily_average = 0
              /\ r.confidence = 0
              /\ r.trend = "NONE"
              /\ r.assumptions = <<"No data available">>
              /\ r.divisions = 0

C7_Witness ==
    /\ lastAudit.op = "score"
    /\ lastAudit.checks = <<>>
    /\ lastAudit.result.risk_level = "NONE"
    /\ prevAudit.op = "score"
    /\ prevAudit.risk_level # "NONE"

\* The place of txs[i] in the timestamp order, equal timestamps kept in
\* input order.
StablePos(txs, i) ==
    1 + Cardinality({ j \in 1..Len(txs) :
                        \/ txs[j].timestamp < txs[i].timestamp
                        \/ (txs[j].timestamp = txs[i].timestamp /\ j < i) })

RECURSIVE SumOver(_, _)
SumOver(txs, idx) ==
    IF idx = {} THEN 0
    ELSE LET i == CHOOSE k \in idx : TRUE
         IN  txs[i].amount + SumOver(txs, idx \ {i})

\* C8: analyze on n transactions: n < 2 gives "INSUFFICIENT_DATA"; otherwise,
\* in timestamp order, the first floor(n/2) are the first half and the rest
\* (with the middle one when n is odd) the second half, and the label is
\* "UPWARD" iff mean(second) > mean(first), "DOWNWARD" iff it is less,
\* "FLAT" iff the means are equal; a constant-amount sequence is "FLAT".
C8_TrendLabel ==
    lastTrend.op = "analyze" =>
        LET txs == lastTrend.transactions
            n == Len(txs)
            mid == n \div 2
            first == { i \in 1..n : StablePos(txs, i) <= mid }
            second == (1..n) \ first
            s1 == SumOver(txs, first)
            s2 == SumOver(txs, second)
        IN  IF n < 2 THEN lastTrend.label = "INSUFFICIENT_DATA"
            ELSE /\ lastTrend.label = "UPWARD" <=> s2 * mid > s1 * (n - mid)
                 /\ lastTrend.label = "DOWNWARD" <=> s2 * mid < s1 * (n - mid)
                 /\ lastTrend.label = "FLAT" <=> s2 * mid = s1 * (n - mid)
                 /\ (\A i \in 1..n : txs[i].amount = txs[1].amount)
                      => lastTrend.label = "FLAT"

C8_Witness ==
    /\ lastTrend.op = "analyze"
    /\ Len(lastTrend.transactions) = 3
    /\ lastTrend.transactions[1].timestamp > lastTrend.transactions[3].timestamp
    /\ lastTrend.transactions[1].amount > lastTrend.transactions[3].amount
    /\ lastTrend.label = "UPWARD"

\* C9: a message always recalls itself: after any adds and similar calls on
\* one memory, similar(m) of every content m added before returns a list
\* holding m, and a similar call made when m was stored returned it.
C9_MessageRecallsItself ==
    /\ \A m \in added : Has(PatternMemory_similar(patterns, m), m)
    /\ lastSimilar.op = "similar" =>
          \A i \in 1..lastSimilar.stored :
              (i <= Len(patterns) /\ patterns[i] = lastSimilar.text)
                  => Has(lastSimilar.result, lastSimilar.text)

C9_Witness ==
    /\ lastSimilar.op = "similar"
    /\ Len(patterns) = 3
    /\ lastSimilar.stored = 3
    /\ patterns[1] = lastSimilar.text
    /\ Len(lastSimilar.text) > PrefixLen
    /\ patterns[2] # lastSimilar.text
    /\ Has(lastSimilar.result, patterns[1])
    /\ ~Has(lastSimilar.result, patterns[2])

Unparsable(raw) == raw.kind \in {"text", "none"}

\* C10: if any transaction dict of the input has an amount that does not
\* parse as a number, the forecasting run raises while building the
\* Transaction list, before forecast and export are evaluated: it returns no
\* result and writes no artifact file.
C10_MalformedRecordFailsBatch ==
    (lastRun.op = "forecast_run"
       /\ \E i \in 1..Len(lastRun.input) : Unparsable(lastRun.input[i].amount))
    => /\ lastRun.raised \in {"ValueError", "TypeError"}
       /\ lastRun.calls = <<>>
       /\ lastRun.file = NoFile
       /\ files = lastRun.filesBefore
       /\ \A k \in 1..Len(exportLog) : exportLog[k] \in DOMAIN lastRun.filesBefore

C10_Witness ==
    /\ lastRun.op = "forecast_run"
    /\ Len(lastRun.input) = 2
    /\ ~Unparsable(lastRun.input[1].amount)
    /\ Unparsable(lastRun.input[2].amount)
    /\ lastRun.raised = "ValueError"
    /\ Len(exportLog) = 1
    /\ files = lastRun.filesBefore

\* C11: evaluate, for any snapshot and any enabled-framework list: the
\* returned checks are exactly the catalog controls whose framework is
\* enabled, in catalog order (a control of a disabled framework is absent);
\* a check has passed iff the snapshot maps its control id to a truthy
\* value, and an id missing from the snapshot gives passed = FALSE.
C11_EvaluateEnabledInCatalogOrder ==
    lastEvaluate.op = "evaluate" =>
        LET checks == lastEvaluate.checks
            snapshot == lastEvaluate.snapshot
            enabled == { evalConfig.enabled_frameworks[i]
                         : i \in 1..Len(evalConfig.enabled_frameworks) }
            kept == { i \in 1..Len(ControlLibrary)
                      : ControlLibrary[i].framework \in enabled }
            place(i) == Cardinality({ j \in kept : j <= i })
        IN  /\ Len(checks) = Cardinality(kept)
            /\ \A i \in kept :
                  /\ checks[place(i)].control_id = ControlLibrary[i].id
                  /\ checks[place(i)].passed
                       <=> /\ ControlLibrary[i].id \in DOMAIN snapshot
                           /\ snapshot[ControlLibrary[i].id] \in {"True", "yes"}

C11_Witness ==
    /\ lastEvaluate.op = "evaluate"
    /\ evalConfig.enabled_frameworks = <<"PCI-DSS", "GENERAL">>
    /\ DOMAIN lastEvaluate.snapshot = {"ACCESS-002", "PAY-003"}
    /\ lastEvaluate.snapshot["ACCESS-002"] = "True"
    /\ lastEvaluate.snapshot["PAY-003"] = "yes"
    /\ lastEvaluate.checks
         = << [control_id |-> "DATA-001", passed |-> FALSE],
              [control_id |-> "PAY-003", passed |-> TRUE] >>

\* C12: under the default scam Config (cutoffs 0.75 and 0.45) score never
\* returns level "HIGH": the three families add at most 0.2 + 0.2 + 0.15 =
\* 0.55, the level is "LOW" or "MEDIUM", and it is "MEDIUM" exactly when all
\* three indicators are present.  Holds of the engine called directly and
\* of the engine the scam runner builds.
DefaultLevelBound(result) ==
    /\ result.level # "HIGH"
    /\ result.level \in {"LOW", "MEDIUM"}
    /\ result.score <= UrgencyIncrement + IncentiveIncrement + LinkIncrement
    /\ result.score < DefaultRiskThresholdHigh
    /\ result.level = "MEDIUM" <=> Len(result.indicators) = 3

C12_DefaultNeverHigh ==
    /\ (lastRisk.op = "score" /\ scamConfig = DefaultScamConfig)
          => DefaultLevelBound(lastRisk.result)
    /\ lastRun.op = "scam_run" => DefaultLevelBound(lastRun.result)

C12_Witness ==
    /\ scamConfig = DefaultScamConfig
    /\ lastRisk.op = "score"
    /\ lastRisk.content = TextAllKeywords
    /\ lastRisk.result.score = 55
    /\ lastRisk.result.level = "MEDIUM"
    /\ Len(lastRisk.result.indicators) = 3
    /\ prevRisk.op = "score"
    /\ prevRisk.score = 40
    /\ prevRisk.level = "LOW"

====
